---- MODULE Spec2Model ----
(***************************************************************************)
(* Blipsort (src/sort.cpp): introspective quicksort with branchless Lomuto *)
(* partitioning, pair insertion sort, heap sort fallback and a pattern     *)
(* scrambler, instantiated for the int8_t element type.                    *)
(*                                                                         *)
(* Arrays are functions over 0 .. n-1.  A read or write at an index that   *)
(* is not in the array's domain is an access outside the caller's memory;  *)
(* the operators report it (ok = FALSE) and the state machine stops in     *)
(* pc = "fault".                                                           *)
(***************************************************************************)
EXTENDS Integers, Sequences, FiniteSets

(***************************************************************************)
(* Program constants                                                       *)
(***************************************************************************)
InsertionThreshold == 88
AscendingThreshold == 8
LargeDataThreshold == 128

\* Width of the element type E = int8_t.
EBits == 8

MinE == -(2 ^ (EBits - 1))
MaxE == 2 ^ (EBits - 1) - 1

\* Conversion of an int result back to E (p - 1 and h + 1 are computed in
\* int and stored into an E).
WrapE(v) == ((v - MinE) % (2 ^ EBits)) + MinE

(***************************************************************************)
(* bitScanRev: parallel prefix fill, De Bruijn multiplication, table       *)
(***************************************************************************)
DeBruijn64 == <<137, 10, 203, 180, 113, 157, 247, 3>>   \* little-endian bytes

DeBruijnTableF ==
    << 0, 47,  1, 56, 48, 27,  2, 60,
      57, 49, 41, 37, 28, 16,  3, 61,
      54, 58, 35, 52, 50, 42, 21, 44,
      38, 32, 29, 23, 17, 11,  4, 62,
      46, 55, 26, 59, 40, 36, 15, 53,
      34, 51, 20, 43, 31, 22, 10, 45,
      25, 39, 14, 33, 19, 30,  9, 24,
      13, 18,  8, 12,  7,  6,  5, 63 >>

\* The 32 bits of a uint32_t value v (0 <= v < 2^31 in this model).
Bits32(v) == [i \in 0..31 |-> IF i = 31 THEN 0 ELSE (v \div (2 ^ i)) % 2]

\* x |= x >> s
OrShr(b, s) ==
    [i \in 0..31 |-> IF b[i] = 1 \/ (i + s <= 31 /\ b[i + s] = 1) THEN 1 ELSE 0]

parallelPrefixFill(b) == OrShr(OrShr(OrShr(OrShr(OrShr(b, 1), 2), 4), 8), 16)

\* Byte j (0..7) of the 64-bit zero extension of a 32-bit vector.
ByteOf(b, j) ==
    IF j > 3 THEN 0
    ELSE b[8*j] + 2*b[8*j+1] + 4*b[8*j+2] + 8*b[8*j+3]
         + 16*b[8*j+4] + 32*b[8*j+5] + 64*b[8*j+6] + 128*b[8*j+7]

RECURSIVE ColumnSum(_, _, _)
\* Sum of the byte products contributing to byte k of l * DeBruijn64.
ColumnSum(b, k, i) ==
    IF i > k THEN 0
    ELSE ByteOf(b, i) * DeBruijn64[k - i + 1] + ColumnSum(b, k, i + 1)

RECURSIVE MulByte(_, _, _)
\* Byte `want` of (l * DeBruijn64) mod 2^64, by schoolbook multiplication.
MulByte(b, k, carry) ==
    LET s == ColumnSum(b, k, 0) + carry
    IN  IF k = 7 THEN s % 256 ELSE MulByte(b, k + 1, s \div 256)

\* bitScanRev without the prefix fill: the table is indexed by the product
\* of the De Bruijn number with l itself.
bitScanRevUnfilled(l) ==
    LET top == MulByte(Bits32(l), 0, 0)
    IN  DeBruijnTableF[(top \div 4) + 1]

bitScanRev(l) ==
    LET f == parallelPrefixFill(Bits32(l))
        top == MulByte(f, 0, 0)             \* bits 56..63 of the product
    IN  DeBruijnTableF[(top \div 4) + 1]    \* >> 58

(***************************************************************************)
(* Loops.  A loop is given by its round Step, a function on loop states    *)
(* (records with a field run, TRUE while the loop has not been left).      *)
(* Loop(Step, s, k) is the state after the loop has been left, provided it *)
(* is left within k rounds; the rounds are evaluated by halves.            *)
(***************************************************************************)
RECURSIVE Loop(_, _, _)
Loop(Step(_), s, k) ==
    IF k <= 0 \/ ~s.run THEN s
    ELSE IF k = 1 THEN Step(s)
    ELSE LET h == Loop(Step, s, k \div 2)
         IN  IF h.run THEN Loop(Step, h, k - (k \div 2)) ELSE h

Min2(x, y) == IF x < y THEN x ELSE y

\* The number of elements of the array; no loop over distinct indices of
\* the array runs for more rounds than Size(a) + 1.
Size(a) == Cardinality(DOMAIN a)

(***************************************************************************)
(* swap                                                                    *)
(***************************************************************************)
swap(a, i, j) == [a EXCEPT ![i] = a[j], ![j] = a[i]]

(***************************************************************************)
(* siftDown and hSort; `base` is the pointer a, indices are relative to it *)
(***************************************************************************)
siftDown(a, base, i, size) ==
    LET n == size
        o == n \div 2
        z == a[base + i]
        \* while(x < o) { ... if(y <= z) break; a[x] = y; x = l; }
        Step(s) ==
            IF s.x < o
            THEN LET l0 == 2 * s.x + 1
                     r  == l0 + 1
                     l  == IF r < n /\ s.a[base + l0] < s.a[base + r] THEN r ELSE l0
                     y  == s.a[base + l]
                 IN  IF y <= z THEN [s EXCEPT !.run = FALSE]
                     ELSE [a |-> [s.a EXCEPT ![base + s.x] = y], x |-> l, run |-> TRUE]
            ELSE [s EXCEPT !.run = FALSE]
        e == Loop(Step, [a |-> a, x |-> i, run |-> TRUE], n + 1)
    IN  [e.a EXCEPT ![base + e.x] = z]

hSort(a, low, high) ==
    LET l  == low
        x0 == (high + 1) - l
        \* for(int i = (x >> 1U); i >= 0; --i) siftDown(l, i, x);
        Build(s) ==
            IF s.i >= 0
            THEN [a |-> siftDown(s.a, l, s.i, x0), i |-> s.i - 1, run |-> TRUE]
            ELSE [s EXCEPT !.run = FALSE]
        heap == Loop(Build, [a |-> a, i |-> x0 \div 2, run |-> TRUE], x0 + 2).a
        \* while(l < --r) { z = *l; *l = *r; siftDown(l, 0, --x); *r = z; }
        Extract(s) ==
            LET r == s.r - 1
            IN  IF l < r
                THEN LET z  == s.a[l]
                         a1 == siftDown([s.a EXCEPT ![l] = s.a[r]], l, 0, s.x - 1)
                     IN  [a |-> [a1 EXCEPT ![r] = z], r |-> r, x |-> s.x - 1,
                          run |-> TRUE]
                ELSE [s EXCEPT !.run = FALSE]
    IN  Loop(Extract, [a |-> heap, r |-> high + 1, x |-> x0, run |-> TRUE], x0 + 2).a

(***************************************************************************)
(* iSort<Bail>(leftmost, low, high)                                        *)
(* Result: a (the array), ret (the return value), moves (the move count),  *)
(* ok (no access outside the array) and lo (the lowest index read).        *)
(***************************************************************************)
\* for (; j >= l && t < *j; --j) j[1] = *j;
ShiftGuarded(a, l, t, j) ==
    LET Step(s) ==
            IF s.j >= l /\ t < s.a[s.j]
            THEN [a |-> [s.a EXCEPT ![s.j + 1] = s.a[s.j]], j |-> s.j - 1, run |-> TRUE]
            ELSE [s EXCEPT !.run = FALSE]
    IN  Loop(Step, [a |-> a, j |-> j, run |-> TRUE], (j - l) + 2)

\* Traditional insertion sort: for (E *i = l + 1; i <= r; ++i) ...
ISortGuarded(Bail, a, l, r) ==
    LET Step(s) ==
            IF s.i > r THEN [s EXCEPT !.run = FALSE]
            ELSE IF s.i \notin DOMAIN s.a \/ l \notin DOMAIN s.a
            THEN [s EXCEPT !.run = FALSE, !.ok = FALSE]
            ELSE LET t  == s.a[s.i]
                     sh == ShiftGuarded(s.a, l, t, s.i - 1)
                     a1 == [sh.a EXCEPT ![sh.j + 1] = t]
                     m1 == IF Bail THEN s.moves + ((s.i - 1) - sh.j) ELSE s.moves
                 IN  IF Bail /\ m1 > AscendingThreshold
                     THEN [s EXCEPT !.a = a1, !.moves = m1, !.ret = FALSE,
                                    !.run = FALSE]
                     ELSE [s EXCEPT !.a = a1, !.moves = m1, !.i = s.i + 1]
        e == Loop(Step, [a |-> a, i |-> l + 1, moves |-> 0, ret |-> TRUE,
                         ok |-> TRUE, run |-> TRUE], Size(a) + 2)
    IN  [a |-> e.a, ret |-> e.ret, moves |-> e.moves, ok |-> e.ok, lo |-> l]

\* do if (l++ >= r) return true; while (*l >= *(l - 1));
\* done: the function returned true; otherwise l is the first descent.
SkipAscending(a, low, r) ==
    LET Step(s) ==
            IF s.l >= r THEN [l |-> s.l + 1, done |-> TRUE, run |-> FALSE]
            ELSE IF a[s.l + 1] >= a[s.l] THEN [s EXCEPT !.l = s.l + 1]
            ELSE [l |-> s.l + 1, done |-> FALSE, run |-> FALSE]
    IN  Loop(Step, [l |-> low, done |-> FALSE, run |-> TRUE], Size(a) + 2)

\* while (e < *--i) i[d] = *i;   (no lower bound check)
\* i is the index at which the scan stopped; ok is FALSE when that index
\* lies outside the array.
ShiftDown(a, e, i, d) ==
    LET Step(s) ==
            LET i1 == s.i - 1
            IN  IF i1 \notin DOMAIN s.a
                THEN [s EXCEPT !.i = i1, !.ok = FALSE, !.run = FALSE]
                ELSE IF e < s.a[i1]
                THEN [s EXCEPT !.a = [s.a EXCEPT ![i1 + d] = s.a[i1]], !.i = i1]
                ELSE [s EXCEPT !.i = i1, !.run = FALSE]
    IN  Loop(Step, [a |-> a, i |-> i, ok |-> TRUE, run |-> TRUE], Size(a) + 2)

\* The pair sort without the insertion of the last element.
InsertLastSkipped(a, r) == [a |-> a, ok |-> TRUE, i |-> r - 1]

\* For odd length arrays, insert the last element.
InsertLast(a, r) ==
    LET ez == a[r]
        sh == ShiftDown(a, ez, r, 1)
    IN  [a |-> IF sh.ok THEN [sh.a EXCEPT ![sh.i + 1] = ez] ELSE sh.a,
         ok |-> sh.ok, i |-> sh.i]

\* The second half of a round of the pair loop: ey has been inserted by the
\* scan s1; now ex is inserted below it and the moves are counted.
\*     (++i)[1] = ey; while (ex < *--i) i[1] = *i; i[1] = ex;
\*     moves += (l - 2) - i; if(moves > AscendingThreshold) return false;
PairInsertSmaller(Bail, s, l, ex, m1, s2) ==
    IF ~s2.ok
    THEN [s EXCEPT !.a = s2.a, !.moves = m1, !.ok = FALSE,
                   !.lo = Min2(s.lo, s2.i), !.run = FALSE]
    ELSE IF Bail /\ m1 + ((l - 2) - s2.i) > AscendingThreshold
    THEN [s EXCEPT !.a = [s2.a EXCEPT ![s2.i + 1] = ex],
                   !.moves = m1 + ((l - 2) - s2.i), !.ret = FALSE,
                   !.lo = Min2(s.lo, s2.i), !.run = FALSE]
    ELSE [s EXCEPT !.a = [s2.a EXCEPT ![s2.i + 1] = ex],
                   !.moves = IF Bail THEN m1 + ((l - 2) - s2.i) ELSE m1,
                   !.i = l + 1, !.lo = Min2(s.lo, s2.i)]

\* The first half: the larger element ey is inserted by the scan s1.
\*     while (ey < *--i) i[2] = *i;
PairInsertLarger(Bail, s, l, ex, ey, m1, s1) ==
    IF ~s1.ok
    THEN [s EXCEPT !.a = s1.a, !.moves = m1, !.ok = FALSE,
                   !.lo = Min2(s.lo, s1.i), !.run = FALSE]
    ELSE PairInsertSmaller(Bail, [s EXCEPT !.lo = Min2(s.lo, s1.i)], l, ex, m1,
             ShiftDown([s1.a EXCEPT ![s1.i + 2] = ey], ex, s1.i + 1, 1))

\* E ex = *i, ey = *l; if (ey < ex) { ex = ey; ey = *i; ++moves; }
PairRound(Bail, s, r) ==
    IF s.i + 1 > r THEN [s EXCEPT !.run = FALSE]
    ELSE IF s.a[s.i + 1] < s.a[s.i]
    THEN PairInsertLarger(Bail, s, s.i + 1, s.a[s.i + 1], s.a[s.i], s.moves + 1,
             ShiftDown(s.a, s.a[s.i], s.i, 2))
    ELSE PairInsertLarger(Bail, s, s.i + 1, s.a[s.i], s.a[s.i + 1], s.moves,
             ShiftDown(s.a, s.a[s.i + 1], s.i, 2))

\* The result of iSort after the pair loop has been left in state e.
PairFinish(e, z) ==
    [a |-> z.a, ret |-> TRUE, moves |-> e.moves, ok |-> z.ok, lo |-> Min2(e.lo, z.i)]

\* for (E *i = l; ++l <= r; i = ++l) ... and the last element
PairLoop(Bail, a, r, l0, low) ==
    LET Step(s) == PairRound(Bail, s, r)
        e == Loop(Step, [a |-> a, i |-> l0, moves |-> 0, ret |-> TRUE, ok |-> TRUE,
                         lo |-> low, run |-> TRUE], Size(a) + 2)
    IN  IF ~e.ok \/ ~e.ret
        THEN [a |-> e.a, ret |-> e.ret, moves |-> e.moves, ok |-> e.ok, lo |-> e.lo]
        ELSE PairFinish(e, InsertLast(e.a, r))

\* Pair insertion sort (the else branch of iSort).
ISortPair(Bail, a, low, high) ==
    IF low >= high
    THEN [a |-> a, ret |-> TRUE, moves |-> 0, ok |-> TRUE, lo |-> low]
    ELSE IF low \notin DOMAIN a \/ high \notin DOMAIN a
    THEN [a |-> a, ret |-> TRUE, moves |-> 0, ok |-> FALSE, lo |-> low]
    ELSE LET sk == SkipAscending(a, low, high)
         IN  IF sk.done
             THEN [a |-> a, ret |-> TRUE, moves |-> 0, ok |-> TRUE, lo |-> low]
             ELSE PairLoop(Bail, a, high, sk.l, low)

iSort(Bail, leftmost, a, low, high) ==
    IF leftmost THEN ISortGuarded(Bail, a, low, high)
    ELSE ISortPair(Bail, a, low, high)

(***************************************************************************)
(* scramble(low, high, len)                                                *)
(***************************************************************************)
scramble(a, low, high, len) ==
    IF len >= InsertionThreshold
    THEN LET q  == len \div 4
             a1 == swap(swap(a, low, low + q), high, high - q)
         IN  IF len > LargeDataThreshold
             THEN swap(swap(swap(swap(a1,
                      low + 1, low + (q + 1)),
                      low + 2, low + (q + 2)),
                      high - 2, high - (q + 2)),
                      high - 1, high - (q + 1))
             ELSE a1
    ELSE a

(***************************************************************************)
(* Pivot candidates (qSort, selection and in-place insertion network)      *)
(***************************************************************************)
Third(x) == (x \div 4) + ((x \div 4) \div 2)       \* y + (y >> 1), y = x >> 2
Sixth(x) == Third(x) \div 2
Mid(low, x) == low + (x \div 2)
Sl(low, x) == low + Third(x)
Sr(high, x) == high - Third(x)
Cl(low, x) == low + Sixth(x)
Cr(high, x) == high - Sixth(x)

\* The bitwise OR of the six <= comparisons.
NotDescending(a, low, high, x) ==
    \/ a[low] <= a[Cl(low, x)]
    \/ a[Cl(low, x)] <= a[Sl(low, x)]
    \/ a[Sl(low, x)] <= a[Mid(low, x)]
    \/ a[Mid(low, x)] <= a[Sr(high, x)]
    \/ a[Sr(high, x)] <= a[Cr(high, x)]
    \/ a[Cr(high, x)] <= a[high]

\* e, just stored in the slot `from`, sinks through the slots of `chain`
\* (from the highest down to cl) while it is less than the next one.
RECURSIVE Sink(_, _, _, _)
Sink(a, e, from, chain) ==
    IF chain = << >> THEN a
    ELSE LET nxt == Head(chain)
         IN  IF e < a[nxt]
             THEN Sink([a EXCEPT ![from] = a[nxt], ![nxt] = e], e, nxt, Tail(chain))
             ELSE a

\* Insertion sort of the five candidates in place.
SortCandidates(a, low, high, x) ==
    LET sl  == Sl(low, x)
        mid == Mid(low, x)
        sr  == Sr(high, x)
        cl  == IF a[low] < a[Cl(low, x)] THEN low ELSE Cl(low, x)
        cr  == IF a[high] > a[Cr(high, x)] THEN high ELSE Cr(high, x)
        a1  == IF a[sl] < a[cl]
               THEN [a EXCEPT ![sl] = a[cl], ![cl] = a[sl]] ELSE a
        a2  == IF a1[mid] < a1[sl]
               THEN Sink([a1 EXCEPT ![mid] = a1[sl], ![sl] = a1[mid]],
                         a1[mid], sl, <<cl>>)
               ELSE a1
        a3  == IF a2[sr] < a2[mid]
               THEN Sink([a2 EXCEPT ![sr] = a2[mid], ![mid] = a2[sr]],
                         a2[sr], mid, <<sl, cl>>)
               ELSE a2
        a4  == IF a3[cr] < a3[sr]
               THEN Sink([a3 EXCEPT ![cr] = a3[sr], ![sr] = a3[cr]],
                         a3[cr], sr, <<mid, sl, cl>>)
               ELSE a3
    IN  a4

\* E* u = low; E* q = high; while(u < mid) { E e = *u; *u++ = *q; *q-- = e; }
Rotate(a, low, high, mid) ==
    LET Step(s) ==
            IF s.u < mid
            THEN [a |-> [s.a EXCEPT ![s.u] = s.a[s.q], ![s.q] = s.a[s.u]],
                  u |-> s.u + 1, q |-> s.q - 1, run |-> TRUE]
            ELSE [s EXCEPT !.run = FALSE]
    IN  Loop(Step, [a |-> a, u |-> low, q |-> high, run |-> TRUE], Size(a) + 2).a

(***************************************************************************)
(* Scans.  Each returns the index at which it stopped; an index outside    *)
(* the array's domain is the address of the read that left the array.      *)
(***************************************************************************)
\* The scan from index i in steps of d (+1 or -1) while Go(a[i]) holds.
Scan(a, i, d, Go(_)) ==
    LET Step(s) ==
            LET j == s.i + d
            IN  [i |-> j, run |-> j \in DOMAIN a /\ Go(a[j])]
    IN  Loop(Step, [i |-> i, run |-> TRUE], Size(a) + 2).i

\* while(*++l < p);
ScanUpLess(a, l, p) == LET Go(v) == v < p IN Scan(a, l, 1, Go)

\* while(*--k >= p);
ScanDownGeq(a, k, p) == LET Go(v) == v >= p IN Scan(a, k, -1, Go)

\* while(*--g > h);
ScanDownGreater(a, g, h) == LET Go(v) == v > h IN Scan(a, g, -1, Go)

\* while(*++l == h);
ScanUpEqual(a, l, h) == LET Go(v) == v = h IN Scan(a, l, 1, Go)

(***************************************************************************)
(* Main partition: branchless Lomuto around p = *mid                       *)
(***************************************************************************)
\* The Lomuto loop with l += (*l <= p): keys equal to the pivot go left.
LomutoLeq(a, l, g, k, p) ==
    LET Step(s) ==
            IF s.g < k
            THEN LET a1 == [s.a EXCEPT ![s.g] = s.a[s.l]]
                     a2 == [a1 EXCEPT ![s.l] = a1[s.g + 1]]
                 IN  [a |-> a2, l |-> IF a2[s.l] <= p THEN s.l + 1 ELSE s.l,
                      g |-> s.g + 1, run |-> TRUE]
            ELSE [s EXCEPT !.run = FALSE]
        e == Loop(Step, [a |-> a, l |-> l, g |-> g, run |-> TRUE], Size(a) + 2)
    IN  [a |-> [e.a EXCEPT ![e.g] = e.a[e.l], ![e.l] = p], l |-> e.l]

\* while(g < k) { *g++ = *l; *l = *g; l += (*l < p); }  *g = *l; *l = p;
Lomuto(a, l, g, k, p) ==
    LET Step(s) ==
            IF s.g < k
            THEN LET a1 == [s.a EXCEPT ![s.g] = s.a[s.l]]
                     a2 == [a1 EXCEPT ![s.l] = a1[s.g + 1]]
                 IN  [a |-> a2, l |-> IF a2[s.l] < p THEN s.l + 1 ELSE s.l,
                      g |-> s.g + 1, run |-> TRUE]
            ELSE [s EXCEPT !.run = FALSE]
        e == Loop(Step, [a |-> a, l |-> l, g |-> g, run |-> TRUE], Size(a) + 2)
    IN  [a |-> [e.a EXCEPT ![e.g] = e.a[e.l], ![e.l] = p], l |-> e.l]

\* The work test with the comparison turned round.
WorkReversed(low, high, l0, k0, x) == ((l0 - low) + (high - k0)) > (x \div 2)

\* bool work = ((l - low) + (high - k)) < (x >> 1U);
Work(low, high, l0, k0, x) == ((l0 - low) + (high - k0)) < (x \div 2)

\* Result: a, ok, p, l0 and k0 (where the two skip loops stopped), l (the
\* final place of the pivot) and work.
Partition(a, low, high, x) ==
    LET mid == Mid(low, x)
        p   == a[mid]
        l0  == ScanUpLess(a, low - 1, p)
        a1  == [a EXCEPT ![mid] = a[l0], ![l0] = WrapE(p - 1)]
        k0  == ScanDownGeq(a1, high + 1, p)
    IN  IF k0 \notin DOMAIN a
        THEN [a |-> a1, ok |-> FALSE, p |-> p, l0 |-> l0, k0 |-> k0, l |-> l0,
              work |-> FALSE]
        ELSE LET r == Lomuto(a1, l0, l0, k0, p)
             IN  [a |-> r.a, ok |-> TRUE, p |-> p, l0 |-> l0, k0 |-> k0, l |-> r.l,
                  work |-> Work(low, high, l0, k0, x)]

(***************************************************************************)
(* Partition left: collapse the keys equal to h = *(low - 1)               *)
(***************************************************************************)
\* Partition left without the last l += (p == h).
LomutoLeftNoAdvance(a, l, k, g, p, h) ==
    LET Step(s) ==
            IF s.k < g
            THEN LET a1 == [s.a EXCEPT ![s.k] = s.a[s.l]]
                     a2 == [a1 EXCEPT ![s.l] = a1[s.k + 1]]
                 IN  [a |-> a2, l |-> IF a2[s.l] = h THEN s.l + 1 ELSE s.l,
                      k |-> s.k + 1, run |-> TRUE]
            ELSE [s EXCEPT !.run = FALSE]
        e == Loop(Step, [a |-> a, l |-> l, k |-> k, run |-> TRUE], Size(a) + 2)
    IN  [a |-> [e.a EXCEPT ![e.k] = e.a[e.l], ![e.l] = p], l |-> e.l]

\* while(k < g) { *k++ = *l; *l = *k; l += (*l == h); }
\* *k = *l; *l = p; l += (p == h);
LomutoLeft(a, l, k, g, p, h) ==
    LET Step(s) ==
            IF s.k < g
            THEN LET a1 == [s.a EXCEPT ![s.k] = s.a[s.l]]
                     a2 == [a1 EXCEPT ![s.l] = a1[s.k + 1]]
                 IN  [a |-> a2, l |-> IF a2[s.l] = h THEN s.l + 1 ELSE s.l,
                      k |-> s.k + 1, run |-> TRUE]
            ELSE [s EXCEPT !.run = FALSE]
        e == Loop(Step, [a |-> a, l |-> l, k |-> k, run |-> TRUE], Size(a) + 2)
    IN  [a |-> [e.a EXCEPT ![e.k] = e.a[e.l], ![e.l] = p],
         l |-> IF p = h THEN e.l + 1 ELSE e.l]

\* Does the equal-pivot short-circuit apply?  (h is read from low - 1.)
EqualsLeftPivot(a, low, high, x) ==
    LET h == a[low - 1]
    IN  h = a[Sl(low, x)] \/ h = a[Mid(low, x)] \/ h = a[Sr(high, x)]

\* Result: a, ok, low (the new low), g0 and l0 (where the scans stopped).
PartitionLeft(a, low, high) ==
    LET h  == a[low - 1]
        g0 == ScanDownGreater(a, high + 1, h)
    IN  IF g0 \notin DOMAIN a
        THEN [a |-> a, ok |-> FALSE, low |-> low, g0 |-> g0, l0 |-> low - 1]
        ELSE
        LET e  == a[g0]
            a1 == [a EXCEPT ![g0] = WrapE(h + 1)]
            l0 == ScanUpEqual(a1, low - 1, h)
        IN  IF l0 \notin DOMAIN a
            THEN [a |-> a1, ok |-> FALSE, low |-> low, g0 |-> g0, l0 |-> l0]
            ELSE
            LET a2 == [a1 EXCEPT ![g0] = e]
                r  == LomutoLeft(a2, l0, l0, g0, a2[l0], h)
            IN  [a |-> r.a, ok |-> TRUE, low |-> r.l, g0 |-> g0, l0 |-> l0]

(***************************************************************************)
(* State                                                                   *)
(*   pc     "start" before the call, "run" inside it, "done" after it      *)
(*          returned, "fault" after an access outside the array            *)
(*   input  the array as passed to blipsort                                *)
(*   a      the array                                                      *)
(*   stack  the qSort frames, innermost last; `at` is the frame's position *)
(*   ev     what the last step did (history)                               *)
(*   stat   how often each thing has happened so far (history)             *)
(***************************************************************************)
VARIABLES pc, input, a, stack, ev, stat

vars == <<pc, input, a, stack, ev, stat>>

Top == stack[Len(stack)]

SetTop(f) == [stack EXCEPT ![Len(stack)] = f]

Bump(field) == [stat EXCEPT ![field] = @ + 1]

NoStat ==
    [part |-> 0, pleft |-> 0, rec |-> 0, scr |-> 0, dec |-> 0, hsort |-> 0,
     isort |-> 0, optTrue |-> 0, optFalse |-> 0, rot |-> 0]

\* The frame returns to its caller.
Return ==
    /\ stack' = SubSeq(stack, 1, Len(stack) - 1)
    /\ pc' = IF Len(stack) = 1 THEN "done" ELSE "run"

Fault ==
    /\ pc' = "fault"
    /\ stack' = stack

ISortEvent(site, Bail, leftmost, low, high, r) ==
    [kind |-> "isort", site |-> site, bail |-> Bail, leftmost |-> leftmost,
     low |-> low, high |-> high, pre |-> a, ret |-> r.ret, moves |-> r.moves,
     ok |-> r.ok, lo |-> r.lo]

HSortEvent(site, f) ==
    [kind |-> "hsort", site |-> site, low |-> f.low, high |-> f.high,
     height |-> f.height, pre |-> a]

(***************************************************************************)
(* Arrays::blipsort                                                        *)
(***************************************************************************)
\* Pointer widths of the builds: a + (cnt - 1) with cnt - 1 = 0xFFFFFFFF
\* (cnt = 0) is a - 1 where addresses are 32 bits wide and an address
\* 2^32 - 1 elements above a where they are 64 bits wide.
PtrBits == {32, 64}

\* An index above every array of the model.
FarIndex == 2 ^ 30 + (2 ^ 30 - 1)

\* cnt - 1 in uint32_t arithmetic, as <<high half, low half>>.
CntMinus1(cnt) ==
    IF cnt = 0 THEN <<65535, 65535>>
    ELSE <<(cnt - 1) \div 65536, (cnt - 1) % 65536>>

\* The index of a + (cnt - 1).
HighIndex(cnt, bits) ==
    LET off == CntMinus1(cnt)
    IN  IF off[1] < 32768 THEN off[1] * 65536 + off[2]
        ELSE IF bits = 32 /\ off = <<65535, 65535>> THEN -1
        ELSE FarIndex

NewFrame(root, leftmost, low, high, height) ==
    [root |-> root, leftmost |-> leftmost, low |-> low, high |-> high,
     height |-> height, x |-> high - low, at |-> "top",
     l |-> low, g |-> low, work |-> FALSE]

Blipsort ==
    /\ pc = "start"
    /\ \E bits \in PtrBits :
        LET cnt  == Cardinality(DOMAIN input)
            high == HighIndex(cnt, bits)
        IN  IF cnt < InsertionThreshold
            THEN LET r == iSort(FALSE, TRUE, a, 0, high)
                 IN  /\ a' = r.a
                     /\ pc' = IF r.ok THEN "done" ELSE "fault"
                     /\ stack' = stack
                     /\ ev' = ISortEvent("small", FALSE, TRUE, 0, high, r)
                     /\ stat' = Bump("isort")
            ELSE /\ stack' = <<NewFrame(TRUE, TRUE, 0, high, bitScanRev(cnt))>>
                 /\ pc' = "run"
                 /\ ev' = [kind |-> "call", cnt |-> cnt]
                 /\ UNCHANGED <<a, stat>>
    /\ UNCHANGED input

(***************************************************************************)
(* qSort: the checks at the head of the tail call loop (not in the root)   *)
(***************************************************************************)
Cutoff ==
    /\ pc = "run" /\ Top.at = "top"
    /\ LET f == Top
       IN  IF ~f.root /\ f.x < InsertionThreshold
           THEN LET r == iSort(FALSE, f.leftmost, a, f.low, f.high)
                IN  /\ a' = r.a
                    /\ ev' = ISortEvent("cutoff", FALSE, f.leftmost, f.low, f.high, r)
                    /\ stat' = Bump("isort")
                    /\ IF r.ok THEN Return ELSE Fault
           ELSE IF ~f.root /\ f.height < 0
           THEN /\ a' = hSort(a, f.low, f.high)
                /\ ev' = HSortEvent("cutoff", f)
                /\ stat' = Bump("hsort")
                /\ Return
           ELSE /\ stack' = SetTop([f EXCEPT !.at = "cand"])
                /\ ev' = [kind |-> "loop", low |-> f.low, high |-> f.high]
                /\ UNCHANGED <<a, pc, stat>>
    /\ UNCHANGED input

(***************************************************************************)
(* qSort: sort the five candidates, or rotate a descending interval        *)
(***************************************************************************)
Candidates ==
    /\ pc = "run" /\ Top.at = "cand"
    /\ LET f   == Top
           asc == NotDescending(a, f.low, f.high, f.x)
       IN  /\ a' = IF asc THEN SortCandidates(a, f.low, f.high, f.x)
                   ELSE Rotate(a, f.low, f.high, Mid(f.low, f.x))
           /\ ev' = [kind |-> "cand", low |-> f.low, high |-> f.high,
                     rotated |-> ~asc, pre |-> a]
           /\ stat' = IF asc THEN stat ELSE Bump("rot")
           /\ stack' = SetTop([f EXCEPT !.at = "part"])
    /\ UNCHANGED <<pc, input>>

\* if(!leftmost) { E h = *(low - 1); if(h == *sl || h == *mid || h == *sr)
TakesLeft(f) ==
    /\ ~f.leftmost
    /\ (f.low - 1) \in DOMAIN a
    /\ EqualsLeftPivot(a, f.low, f.high, f.x)

(***************************************************************************)
(* qSort: partition left                                                   *)
(***************************************************************************)
PartLeft ==
    /\ pc = "run" /\ Top.at = "part"
    /\ ~Top.leftmost
    /\ LET f == Top
       IN  IF (f.low - 1) \notin DOMAIN a
           THEN /\ Fault
                /\ ev' = [kind |-> "pleft", ok |-> FALSE, low |-> f.low,
                          high |-> f.high, pre |-> a]
                /\ UNCHANGED <<a, stat>>
           ELSE /\ EqualsLeftPivot(a, f.low, f.high, f.x)
                /\ LET r == PartitionLeft(a, f.low, f.high)
                   IN  /\ a' = r.a
                       /\ ev' = [kind |-> "pleft", ok |-> r.ok, low |-> f.low,
                                 high |-> f.high, h |-> a[f.low - 1],
                                 newlow |-> r.low, g0 |-> r.g0, l0 |-> r.l0,
                                 pre |-> a]
                       /\ stat' = Bump("pleft")
                       /\ IF ~r.ok THEN Fault
                          ELSE IF r.low >= f.high THEN Return
                          ELSE /\ stack' = SetTop([f EXCEPT !.low = r.low,
                                                   !.x = f.high - r.low,
                                                   !.at = "top"])
                               /\ pc' = pc
    /\ UNCHANGED input

(***************************************************************************)
(* qSort: main partition                                                   *)
(***************************************************************************)
\* Skip the pivot: g = l + (l < high);
SkipPivotRight(l, high) == IF l < high THEN l + 1 ELSE l

\* l += (l > low): the left interval takes in the pivot and a key beyond it.
SkipPivotLeftUp(l, low) == IF l > low THEN l + 1 ELSE l

\* l -= (l > low);
SkipPivotLeft(l, low) == IF l > low THEN l - 1 ELSE l

MainPartition ==
    /\ pc = "run" /\ Top.at = "part"
    /\ ~TakesLeft(Top)
    /\ Top.leftmost \/ (Top.low - 1) \in DOMAIN a
    /\ LET f == Top
           r == Partition(a, f.low, f.high, f.x)
       IN  /\ a' = r.a
           /\ ev' = [kind |-> "part", ok |-> r.ok, low |-> f.low, high |-> f.high,
                     p |-> r.p, l0 |-> r.l0, k0 |-> r.k0, l |-> r.l,
                     work |-> r.work, pre |-> a]
           /\ stat' = Bump("part")
           /\ IF ~r.ok THEN Fault
              ELSE /\ pc' = pc
                   /\ stack' = SetTop([f EXCEPT
                         !.g = SkipPivotRight(r.l, f.high),
                         !.l = SkipPivotLeft(r.l, f.low),
                         !.work = r.work,
                         !.at = "bal"])
    /\ UNCHANGED input

(***************************************************************************)
(* qSort: after the partition                                              *)
(***************************************************************************)
Eighth(x) == x \div 8

\* if(ls >= _8th && gs >= _8th)
Balanced(f) ==
    /\ f.l - f.low >= Eighth(f.x)
    /\ f.high - f.g >= Eighth(f.x)

Balance ==
    /\ pc = "run" /\ Top.at = "bal"
    /\ LET f == Top
       IN  /\ stack' = SetTop([f EXCEPT !.at =
                  IF Balanced(f) THEN (IF f.work THEN "l1" ELSE "opt1") ELSE "scr"])
           /\ ev' = [kind |-> "bal", low |-> f.low, high |-> f.high, l |-> f.l,
                     g |-> f.g, balanced |-> Balanced(f), work |-> f.work]
    /\ UNCHANGED <<pc, input, a, stat>>

\* if(!iSort(leftmost, low, l)) goto l1;
OptimisticLeft ==
    /\ pc = "run" /\ Top.at = "opt1"
    /\ LET f == Top
           r == iSort(TRUE, f.leftmost, a, f.low, f.l)
       IN  /\ a' = r.a
           /\ ev' = ISortEvent("opt1", TRUE, f.leftmost, f.low, f.l, r)
           /\ stat' = [stat EXCEPT !.isort = @ + 1,
                          !.optTrue = IF r.ok /\ r.ret THEN @ + 1 ELSE @,
                          !.optFalse = IF r.ok /\ ~r.ret THEN @ + 1 ELSE @]
           /\ IF ~r.ok THEN Fault
              ELSE /\ pc' = pc
                   /\ stack' = SetTop([f EXCEPT !.at = IF r.ret THEN "opt2" ELSE "l1"])
    /\ UNCHANGED input

\* if(!iSort(false, g, high)) goto l2; return;
OptimisticRight ==
    /\ pc = "run" /\ Top.at = "opt2"
    /\ LET f == Top
           r == iSort(TRUE, FALSE, a, f.g, f.high)
       IN  /\ a' = r.a
           /\ ev' = ISortEvent("opt2", TRUE, FALSE, f.g, f.high, r)
           /\ stat' = [stat EXCEPT !.isort = @ + 1,
                          !.optTrue = IF r.ok /\ r.ret THEN @ + 1 ELSE @,
                          !.optFalse = IF r.ok /\ ~r.ret THEN @ + 1 ELSE @]
           /\ IF ~r.ok THEN Fault
              ELSE IF r.ret THEN Return
              ELSE /\ pc' = pc
                   /\ stack' = SetTop([f EXCEPT !.at = "l2"])
    /\ UNCHANGED input

\* scramble(low, l, ls); scramble(g, high, gs); --height;
Scramble ==
    /\ pc = "run" /\ Top.at = "scr"
    /\ LET f == Top
       IN  /\ a' = scramble(scramble(a, f.low, f.l, f.l - f.low),
                            f.g, f.high, f.high - f.g)
           /\ stack' = SetTop([f EXCEPT !.height = @ - 1, !.at = "l1"])
           /\ ev' = [kind |-> "scr", low |-> f.low, high |-> f.high, l |-> f.l,
                     g |-> f.g, x |-> f.x, height |-> f.height, pre |-> a]
           /\ stat' = [stat EXCEPT !.scr = @ + 2, !.dec = @ + 1]
    /\ UNCHANGED <<pc, input>>

\* The recursive call made on the right side of the pivot, [g, high].
RecurseRight ==
    /\ pc = "run" /\ Top.at = "l1"
    /\ LET f == Top
       IN  /\ stack' = Append(SetTop([f EXCEPT !.at = "l2"]),
                              NewFrame(FALSE, FALSE, f.g, f.high, f.height))
           /\ ev' = [kind |-> "rec", low |-> f.g, high |-> f.high,
                     g |-> f.g, parentHigh |-> f.high, height |-> f.height]
           /\ stat' = Bump("rec")
    /\ UNCHANGED <<pc, input, a>>

\* l1: qSort<E, false>(leftmost, low, l, height);
RecurseLeft ==
    /\ pc = "run" /\ Top.at = "l1"
    /\ LET f == Top
       IN  /\ stack' = Append(SetTop([f EXCEPT !.at = "l2"]),
                              NewFrame(FALSE, f.leftmost, f.low, f.l, f.height))
           /\ ev' = [kind |-> "rec", low |-> f.low, high |-> f.l,
                     g |-> f.g, parentHigh |-> f.high, height |-> f.height]
           /\ stat' = Bump("rec")
    /\ UNCHANGED <<pc, input, a>>

\* The flag is kept when the loop continues to the right of the pivot.
LeftmostKept(leftmost) == leftmost

\* leftmost = false;   (the value of the flag for the next loop iteration)
LeftmostAfterPivot(leftmost) == FALSE

\* l2: low = g; x = high - low; the root's checks; leftmost = false;
IterateRight ==
    /\ pc = "run" /\ Top.at = "l2"
    /\ LET f    == Top
           low  == f.g
           x    == f.high - low
       IN  IF f.root /\ x < InsertionThreshold
           THEN LET r == iSort(FALSE, FALSE, a, low, f.high)
                IN  /\ a' = r.a
                    /\ ev' = ISortEvent("rootcut", FALSE, FALSE, low, f.high, r)
                    /\ stat' = Bump("isort")
                    /\ IF r.ok THEN Return ELSE Fault
           ELSE IF f.root /\ f.height < 0
           THEN /\ a' = hSort(a, low, f.high)
                /\ ev' = HSortEvent("rootcut", [f EXCEPT !.low = low])
                /\ stat' = Bump("hsort")
                /\ Return
           ELSE /\ stack' = SetTop([f EXCEPT !.low = low, !.x = x,
                                    !.leftmost = LeftmostAfterPivot(f.leftmost),
                                    !.at = "top"])
                /\ ev' = [kind |-> "iter", from |-> f.low, low |-> low,
                          high |-> f.high]
                /\ UNCHANGED <<a, pc, stat>>
    /\ UNCHANGED input

(***************************************************************************)
(* Inputs                                                                  *)
(***************************************************************************)
MaxLen == 200
MaxSeed == 2

\* The boundary lengths around the insertion threshold and the large data
\* threshold, and one longer array.
Lens == {0, 1, 2, 3, InsertionThreshold - 1, InsertionThreshold,
         InsertionThreshold + 1, LargeDataThreshold - 1, LargeDataThreshold,
         LargeDataThreshold + 1, MaxLen}

Moduli == {2, 5, 2 ^ EBits}

Ascending(n) == [i \in 0 .. n - 1 |-> i - (n \div 2)]

\* Strictly increasing from the least value of E, as widely spaced as E allows.
Spread(n) == [i \in 0 .. n - 1 |-> MinE + i * ((2 ^ EBits) \div (n + 1))]

Descending(n) == [i \in 0 .. n - 1 |-> (n - 1 - i) - (n \div 2)]

Constant(n, v) == [i \in 0 .. n - 1 |-> v]

\* A fixed pseudo-random residue for index i.
Residue(i, m, s) == (i * i * (2 * s + 3) + 7 * i * s + s) % m

ScatterUp(n, m, s) == [i \in 0 .. n - 1 |-> MinE + Residue(i, m, s)]

ScatterDown(n, m, s) == [i \in 0 .. n - 1 |-> MaxE - Residue(i, m, s)]

\* An ascending array with a few keys displaced by seven places, from index
\* `from` on: the optimistic insertion sorts give up on the displaced part.
Perturbed(n, from) ==
    [i \in 0 .. n - 1 |->
        (i - (n \div 2))
        + (IF i >= from /\ i % 16 = 3 THEN 7
           ELSE IF i >= from /\ i % 16 = 10 THEN -7 ELSE 0)]

\* Many equal keys, one smaller key at every fourth place and a short tail
\* of greater keys: partition left leaves the root a small interval.
Plateau(n) ==
    [i \in 0 .. n - 1 |->
        IF i % 4 = 0 THEN -3 ELSE IF i < n - 6 THEN 0 ELSE 9 - (i % 3)]

FromSeq(s) == [i \in 0 .. Len(s) - 1 |-> s[i + 1]]

\* Two arrays on which every partition is unbalanced until the height is
\* used up: the pivots are always among the least keys of the interval ...
LowPivots ==
    <<
       -120, 100, 100, -86, 100, 100, 100, 100, 100, 100, 100, 100, 100, 100, 100, 100, 100, -85, 100, 100,
       100, 100, 100, 100, 100, -78, 100, 100, 100, 100, 100, -71, 100, 100, 100, 100, -119, 100, 100, 100,
       -112, 100, 100, 100, 100, 100, -106, 100, 100, 100, -99, 100, -113, 100, 100, 100, -92, 100, -107, 100,
       100, 100, -100, 100, 100, 100, 100, -93, 100, 100, 100, 100, 100, -118, 100, 100, -111, 100, -79, 100,
       100, -105, 100, -72, -98, 100, 100, 100, -91, 100, 100, 100, 100, 100, -84, 100, 100, 100, -77, -117,
       100, -110, -70, 100, 100, -104, 100, 100, -97, 100, 100, -90, 100, 100, 100, -83, 100, 100, -76, 100,
       100, 100, -69, 100, 100, 100, -116, -109, 100, -103, 100, 100, -96, 100, 100, -89, -82, 100, 100, -75,
       100, 100, -68, 100, 100, 100, 100, 100, 100, 100, 100, -108, -101, 100, -94, 100, -87, -80, 100, -73,
       100, -66, 100, -115, -102, 100, -95, -88, -81, -74, 100, -67, 100, 100, 100, 100, 100, 100, 100, 100,
       100, 100, 100, 100, 100, 100, 100, 100, 100, 100, 100, 100, 100, 100, 100, 100, 100, 100, 100, -114 >>

\* ... or always among its greatest keys.
HighPivots ==
    <<
       120, 102, -100, 76, -100, -100, -100, -100, -100, -100, -100, -100, -100, -100, -100, -100, -100, -100, -100, -100,
       -100, -100, -100, -100, -100, -100, -100, -100, -100, -100, -100, 74, 88, 77, 96, -100, 119, 103, 109, -100,
       -100, -100, -100, -100, -100, -100, 75, 89, 94, 95, 108, -100, -100, -100, -100, -100, -100, -100, -100, -100,
       -100, -100, -100, -100, -100, -100, -100, -100, -100, 73, -100, 87, 97, 118, 104, 110, -100, 78, -100, -100,
       -100, -100, -100, -100, -100, -100, -100, -100, -100, -100, -100, -100, -100, -100, 72, -100, 86, 93, -100, 117,
       -100, 105, 111, 98, 79, -100, -100, -100, -100, -100, -100, -100, -100, -100, -100, -100, -100, -100, -100, -100,
       -100, -100, 71, 92, -100, 85, 116, 112, 99, 80, -100, -100, -100, -100, -100, -100, -100, -100, -100, -100,
       -100, -100, -100, -100, -100, -100, -100, -100, 83, 69, -100, 113, 101, -100, -100, -100, -100, -100, -100, -100,
       -100, 91, 70, 115, 106, 100, 84, 81, -100, -100, -100, -100, -100, -100, -100, -100, -100, -100, -100, -100,
       -100, -100, -100, -100, -100, -100, -100, -100, -100, -100, -100, -100, -100, -100, -100, -100, 90, 82, 107, 114 >>

Inputs ==
    UNION { {Ascending(n), Spread(n), Descending(n)}
            \cup {Constant(n, v) : v \in {0, MinE, MaxE}}
            \cup {ScatterUp(n, m, s) : m \in Moduli, s \in 0 .. MaxSeed}
            \cup {ScatterDown(n, m, s) : m \in Moduli, s \in 0 .. MaxSeed}
            \cup {Perturbed(n, 0), Perturbed(n, (2 * n) \div 3), Plateau(n)}
            : n \in Lens }
    \cup {FromSeq(LowPivots), FromSeq(HighPivots)}

(***************************************************************************)
(* Specification                                                           *)
(***************************************************************************)
Init ==
    /\ pc = "start"
    /\ input \in Inputs
    /\ a = input
    /\ stack = << >>
    /\ ev = [kind |-> "none"]
    /\ stat = NoStat

Next ==
    \/ Blipsort
    \/ Cutoff
    \/ Candidates
    \/ PartLeft
    \/ MainPartition
    \/ Balance
    \/ OptimisticLeft
    \/ OptimisticRight
    \/ Scramble
    \/ RecurseLeft
    \/ IterateRight

Spec == Init /\ [][Next]_vars

(***************************************************************************)
(* iSort on its own: every array up to MaxISortLen over 0 .. MaxISortVal,  *)
(* both values of Bail, the guarded sort on a[low..high] and the pair sort *)
(* on a[low..high] where a[low - 1] bounds the interval from below.        *)
(***************************************************************************)
MaxISortLen == 5
MaxISortVal == 2
MaxBinaryLen == 10

\* Short arrays over a few keys, and longer arrays over two keys (the move
\* count of the pair sort exceeds the threshold only on the longer ones).
ISortArrays ==
    UNION {[0 .. n - 1 -> 0 .. MaxISortVal] : n \in 1 .. MaxISortLen}
    \cup UNION {[0 .. n - 1 -> 0 .. 1] : n \in 1 .. MaxBinaryLen}

\* The caller's side of the unguarded scans: an element at low - 1 that is
\* not greater than any of a[low..high].
BoundedBelow(b, low, high) ==
    /\ (low - 1) \in DOMAIN b
    /\ \A i \in low .. high : b[low - 1] <= b[i]

InitISort ==
    /\ pc = "isort"
    /\ input \in ISortArrays
    /\ a = input
    /\ stack = << >>
    /\ ev = [kind |-> "none"]
    /\ stat = NoStat

ISortCall ==
    /\ pc = "isort"
    /\ \E Bail \in BOOLEAN, leftmost \in BOOLEAN, low \in DOMAIN a, high \in DOMAIN a :
        /\ low <= high
        /\ high >= Size(a) - 2
        /\ leftmost \/ BoundedBelow(a, low, high)
        /\ LET r == iSort(Bail, leftmost, a, low, high)
           IN  /\ a' = r.a
               /\ ev' = ISortEvent("call", Bail, leftmost, low, high, r)
               /\ stat' = Bump("isort")
               /\ pc' = IF r.ok THEN "done" ELSE "fault"
    /\ UNCHANGED <<input, stack>>

NextISort == ISortCall

SpecISort == InitISort /\ [][NextISort]_vars

(***************************************************************************)
(* Vocabulary of the properties                                            *)
(***************************************************************************)
N == Cardinality(DOMAIN input)

SortedOn(b, lo, hi) == \A i \in lo .. hi - 1 : b[i] <= b[i + 1]

Count(b, lo, hi, v) == Cardinality({i \in lo .. hi : b[i] = v})

\* b[lo..hi] and c[lo..hi] hold the same keys, each as often.
PermutationOn(b, c, lo, hi) ==
    \A v \in {b[i] : i \in lo .. hi} \cup {c[i] : i \in lo .. hi} :
        Count(b, lo, hi, v) = Count(c, lo, hi, v)

SameOutside(b, c, lo, hi) ==
    /\ DOMAIN b = DOMAIN c
    /\ \A i \in DOMAIN b \ (lo .. hi) : b[i] = c[i]

StrictlyIncreasing(b) ==
    \A i \in DOMAIN b : (i + 1) \in DOMAIN b => b[i] < b[i + 1]

FloorLog2(n) == CHOOSE k \in 0 .. 30 : 2 ^ k <= n /\ n < 2 * (2 ^ k)

(***************************************************************************)
(* C1.  For every input array, blipsort returns and leaves a[0..n)         *)
(* non-decreasing and a permutation of the input: once the call is over    *)
(* (pc is "done" or "fault") it is over by a return, and the array is the  *)
(* ascending arrangement of the input's keys.                              *)
(***************************************************************************)
C1_SortsEveryInput ==
    pc \in {"done", "fault"} =>
        /\ pc = "done"
        /\ SortedOn(a, 0, N - 1)
        /\ PermutationOn(a, input, 0, N - 1)

(***************************************************************************)
(* C2.  blipsort with n = 0 returns without an access to any element: the  *)
(* first step of a call with an empty array ends in "done", its insertion  *)
(* sort having read and written nothing outside the (empty) array.         *)
(***************************************************************************)
C2_EmptyCallTouchesNothing ==
    (N = 0 /\ pc # "start") =>
        /\ pc = "done"
        /\ ev.kind = "isort" /\ ev.ok
        /\ a = input

(***************************************************************************)
(* C3.  blipsort terminates: no step of the call ends in an access outside *)
(* the array (every scan stops inside it), so the call is left only by its *)
(* return; partition left continues with a greater low, the loop continues *)
(* at low = g with a greater low, and every recursive call gets an         *)
(* interval that ends below its caller's.                                  *)
(***************************************************************************)
C3_Terminates ==
    /\ pc # "fault"
    /\ ev.kind = "part" => ev.ok
    /\ ev.kind = "pleft" => ev.ok /\ ev.newlow > ev.low
    /\ ev.kind = "iter" => ev.low > ev.from
    /\ ev.kind = "rec" => ev.low <= ev.high /\ ev.high < ev.parentHigh

(***************************************************************************)
(* C4.  On a strictly increasing input of length n >= 88 there is exactly  *)
(* one main partition, in the root frame; both optimistic insertion sorts  *)
(* return true; there is no recursive call, no partition left, no          *)
(* scramble, no height decrement and no heap sort; the array is never      *)
(* changed.                                                                *)
(***************************************************************************)
C4_IncreasingInput ==
    (StrictlyIncreasing(input) /\ N >= InsertionThreshold) =>
        /\ pc # "fault"
        /\ a = input
        /\ Len(stack) <= 1
        /\ \A i \in 1 .. Len(stack) : stack[i].root
        /\ stat.part <= 1
        /\ stat.rec = 0 /\ stat.pleft = 0 /\ stat.scr = 0 /\ stat.dec = 0
        /\ stat.hsort = 0 /\ stat.optFalse = 0 /\ stat.rot = 0
        /\ stat.isort = stat.optTrue
        /\ pc = "done" => stat.part = 1 /\ stat.optTrue = 2 /\ ev.site = "opt2"

C4_Witness ==
    /\ StrictlyIncreasing(input) /\ N > LargeDataThreshold
    /\ input[0] = MinE
    /\ pc = "done" /\ stat.part = 1 /\ stat.optTrue = 2

(***************************************************************************)
(* C5.  In the main partition, whatever the pivot p, the downward scan     *)
(* over the keys >= p stops at an index k >= l, the place of the stopper,  *)
(* and so reads no index below low.                                        *)
(***************************************************************************)
C5_DownScanStopsAtStopper ==
    ev.kind = "part" => ev.k0 >= ev.l0 /\ ev.l0 >= ev.low

(***************************************************************************)
(* C6.  For every qSort frame, at its entry, at the start of each of its   *)
(* loop iterations and in between: every element left of low is <= every   *)
(* element of a[low..high], and every element right of high is >= every    *)
(* element of a[low..high].                                                *)
(***************************************************************************)
FrameBounded(f) ==
    LET left   == {a[i] : i \in 0 .. f.low - 1}
        inside == {a[i] : i \in f.low .. f.high}
        right  == {a[i] : i \in f.high + 1 .. N - 1}
    IN  /\ \A u \in left, v \in inside : u <= v
        /\ \A v \in inside, w \in right : v <= w

C6_FramesBounded ==
    pc = "run" => \A i \in 1 .. Len(stack) : FrameBounded(stack[i])

\* A frame two calls deep, at the start of a loop iteration, with elements
\* on both sides, after candidates were sorted, a descending interval was
\* rotated, keys were scrambled and partition left has run.
C6_Witness ==
    /\ pc = "run" /\ Len(stack) >= 2
    /\ Top.at = "top" /\ Top.low > 0 /\ Top.high < N - 1
    /\ stat.scr > 0 /\ stat.pleft > 0
    /\ a # input

(***************************************************************************)
(* C7.  After the Lomuto loop and the pivot restore of the main partition  *)
(* on [low, high] with p = a[mid]: a[low..l) < p, a[l] = p,                *)
(* a[l+1..high] >= p, and a[low..high] is a permutation of what it was     *)
(* (the stopper p - 1 is gone and nothing is lost); nothing outside        *)
(* [low, high] is changed.                                                 *)
(***************************************************************************)
C7_PartitionPost ==
    (ev.kind = "part" /\ ev.ok) =>
        /\ ev.p = ev.pre[Mid(ev.low, ev.high - ev.low)]
        /\ ev.low <= ev.l /\ ev.l <= ev.high
        /\ \A i \in ev.low .. ev.l - 1 : a[i] < ev.p
        /\ a[ev.l] = ev.p
        /\ \A i \in ev.l + 1 .. ev.high : a[i] >= ev.p
        /\ PermutationOn(a, ev.pre, ev.low, ev.high)
        /\ SameOutside(a, ev.pre, ev.low, ev.high)

\* A partition whose Lomuto loop ran, in an interval that holds the pivot's
\* key more than once and also the stopper's key p - 1.
C7_Witness ==
    /\ ev.kind = "part" /\ ev.ok
    /\ ev.l0 + 1 < ev.k0
    /\ ev.low < ev.l /\ ev.l < ev.high
    /\ Count(ev.pre, ev.low, ev.high, ev.p) > 1
    /\ Count(ev.pre, ev.low, ev.high, WrapE(ev.p - 1)) > 0
    /\ a # ev.pre

(***************************************************************************)
(* C8.  Partition left on a non-leftmost [low, high] with h = a[low-1]     *)
(* equal to a[sl], a[mid] or a[sr] ends with a new low' > low such that    *)
(* a[low..low') = h everywhere, a[low'..high] > h everywhere, a[low..high] *)
(* is a permutation of what it was (the sentinel h + 1 is gone), and both  *)
(* scans stop inside [low-1, high].                                        *)
(***************************************************************************)
C8_PartitionLeftPost ==
    ev.kind = "pleft" =>
        /\ ev.ok
        /\ ev.low >= 1 /\ ev.h = ev.pre[ev.low - 1]
        /\ ev.newlow > ev.low /\ ev.newlow <= ev.high + 1
        /\ \A i \in ev.low .. ev.newlow - 1 : a[i] = ev.h
        /\ \A i \in ev.newlow .. ev.high : a[i] > ev.h
        /\ PermutationOn(a, ev.pre, ev.low, ev.high)
        /\ SameOutside(a, ev.pre, ev.low, ev.high)
        /\ ev.low - 1 <= ev.g0 /\ ev.g0 <= ev.high
        /\ ev.low - 1 <= ev.l0 /\ ev.l0 <= ev.high

\* Partition left moved keys and left a non-empty interval of greater keys.
C8_Witness ==
    /\ ev.kind = "pleft" /\ ev.ok
    /\ ev.l0 < ev.g0
    /\ ev.newlow <= ev.high
    /\ a # ev.pre

(***************************************************************************)
(* C9.  The height of the root frame starts at floor(log2 n), which is     *)
(* what bitScanRev computes for every length up to n; along loop           *)
(* iterations and recursive calls it never increases; it changes only by   *)
(* the decrement after a main partition whose sides fail the balance test; *)
(* hSort is called only with height < 0 on an interval with                *)
(* high - low >= 88.                                                       *)
(***************************************************************************)
C9_Heights ==
    /\ ev.kind = "call" =>
          /\ stack[1].height = FloorLog2(N)
          /\ \A n \in 1 .. N : bitScanRev(n) = FloorLog2(n)
    /\ \A i \in 1 .. Len(stack) : stack[i].height <= FloorLog2(N)
    /\ \A i \in 1 .. Len(stack) - 1 : stack[i + 1].height <= stack[i].height
    /\ ev.kind = "hsort" =>
          ev.height < 0 /\ ev.high - ev.low >= InsertionThreshold

C9_HeightStep ==
    /\ \A i \in 1 .. Min2(Len(stack), Len(stack')) - 1 :
          stack'[i].height = stack[i].height
    /\ (Len(stack') = Len(stack) /\ Len(stack) > 0 /\ Top'.height # Top.height) =>
          /\ Top'.height = Top.height - 1
          /\ Top.at = "scr" /\ ~Balanced(Top)
          /\ stat.part > 0
    /\ (Len(stack') = Len(stack) + 1 /\ Len(stack) > 0) =>
          /\ Top'.height = Top.height
          /\ stack'[Len(stack)].height = Top.height
    /\ Len(stack') < Len(stack) =>
          \A i \in 1 .. Len(stack') : stack'[i].height = stack[i].height

C9_HeightDiscipline == []C9_Heights /\ [][C9_HeightStep]_vars

\* The height was used up, one decrement at a time, and heap sort ran.
C9_Witness ==
    /\ ev.kind = "hsort" /\ ev.height = -1
    /\ stat.dec = FloorLog2(N) + 1

(***************************************************************************)
(* C10.  iSort<false> returns true; iSort<true> returns false only with a  *)
(* move count above 8; a return of true leaves a[low..high] non-decreasing;*)
(* on either return a[low..high] is a permutation of what it was, and      *)
(* nothing outside it is changed.                                          *)
(***************************************************************************)
C10_ISortContract ==
    ev.kind = "isort" =>
        /\ ev.ok
        /\ ~ev.bail => ev.ret
        /\ ~ev.ret => ev.bail /\ ev.moves > AscendingThreshold
        /\ ev.ret => SortedOn(a, ev.low, ev.high)
        /\ PermutationOn(a, ev.pre, ev.low, ev.high)
        /\ SameOutside(a, ev.pre, ev.low, ev.high)

\* The pair insertion sort gave up after it had moved keys.
C10_Witness ==
    /\ ev.kind = "isort" /\ ev.bail /\ ~ev.leftmost /\ ~ev.ret
    /\ a # ev.pre

(***************************************************************************)
(* C11.  Whenever iSort is called with leftmost = false on [low, high]     *)
(* (small-interval cutoff, optimistic calls, the root's last insertion     *)
(* sort): low >= 1 and a[low-1] <= every element of a[low..high], and the  *)
(* unguarded scans read no index below low-1 and change nothing outside    *)
(* [low, high].  leftmost = true is passed exactly when low is index 0.    *)
(***************************************************************************)
C11_UnguardedISortBounded ==
    ev.kind = "isort" =>
        /\ ev.leftmost <=> ev.low = 0
        /\ ~ev.leftmost =>
              /\ ev.low >= 1
              /\ BoundedBelow(ev.pre, ev.low, ev.high)
              /\ ev.ok
              /\ ev.lo >= ev.low - 1
              /\ SameOutside(a, ev.pre, ev.low, ev.high)

\* A pair insertion sort whose scan went down to the element at low - 1
\* and stopped there.
C11_Witness ==
    /\ ev.kind = "isort" /\ ~ev.leftmost /\ ev.ok
    /\ ev.lo = ev.low - 1
    /\ \E i \in ev.low .. ev.high : ev.pre[i] = ev.pre[ev.low - 1]
    /\ a # ev.pre

(***************************************************************************)
(* C12.  As claimed: after a main partition that is followed by recursion, *)
(* the recursive call gets the smaller side: the interval passed to it has *)
(* no more elements than the interval [g, high] the loop continues with.   *)
(***************************************************************************)
C12_RecursesOnSmallerSide ==
    ev.kind = "rec" =>
        (ev.high - ev.low) + 1 <= (ev.parentHigh - ev.g) + 1

(***************************************************************************)
(* C12, amended.  After a main partition that is followed by recursion,    *)
(* the recursive call gets the left side [low, l], whatever its size, with *)
(* the caller's leftmost flag and height, and the caller's loop continues  *)
(* with the right side [g, high]; the two sides are disjoint, lie inside   *)
(* the caller's interval and each has fewer elements than it.              *)
(***************************************************************************)
C12_RecursesOnLeftSide ==
    /\ ev.kind = "rec" =>
          LET child  == stack[Len(stack)]
              parent == stack[Len(stack) - 1]
          IN  /\ Len(stack) >= 2
              /\ parent.at = "l2"
              /\ child.at = "top" /\ ~child.root
              /\ child.low = parent.low /\ child.high = parent.l
              /\ child.leftmost = parent.leftmost
              /\ child.height = parent.height
              /\ child.low <= child.high
              /\ child.high < parent.g /\ parent.g <= parent.high
              /\ parent.g - child.high \in {1, 2}
              /\ ev.low = child.low /\ ev.high = child.high
              /\ ev.g = parent.g /\ ev.parentHigh = parent.high
    /\ ev.kind = "iter" =>
          /\ Top.low = Top.g /\ Top.low = ev.low /\ Top.high = ev.high
          /\ ev.low > ev.from
          /\ Top.at = "top" /\ ~Top.leftmost

\* A recursive call on a left side that has more elements than the right
\* side the loop continues with.
C12_Witness ==
    /\ ev.kind = "rec"
    /\ (ev.high - ev.low) + 1 > (ev.parentHigh - ev.g) + 1
    /\ stack[Len(stack)].low = ev.low /\ stack[Len(stack)].high = ev.high

====
